---- MODULE Spec2Model ----
(***************************************************************************)
(* MQTT LED clock: an ESP32 sketch that renders the time on an 86-LED      *)
(* NeoPixel strip in 7-segment style and takes colour and brightness       *)
(* overrides over MQTT.  The repository holds two variants of the sketch:  *)
(*   "portal": src/unnamed/part_000 (stored settings, config portal)       *)
(*   "fixed" : src/MQTT_LED_Clock.ino (compiled-in settings)               *)
(* The rendering code and mqttCallback are the same text in both.          *)
(***************************************************************************)
EXTENDS Integers, Sequences, FiniteSets, TLC

VARIABLES
  pc,          \* position of the sketch (or of the call under study)
  variant,     \* which sketch runs: "portal" or "fixed"
  arg,         \* the inputs of the call under study
  leds,        \* stripClock's pixel buffer: LED index -> stored colour
  stripBrightness,   \* what stripClock.setBrightness was last given
  mqttColorActive,   \* the colour override is active
  mqttColor,         \* the override colour (uint32_t)
  brightness,        \* the brightness (int)
  stored,      \* the stored settings: topics and Wi-Fi SSID
  wifiConnected,     \* the sketch's flag of that name
  timeout,     \* the poll counter of the Wi-Fi wait loops
  lastTimeSync,      \* millis() at the last resync (unsigned long)
  currentHour, currentMinute,
  now,         \* what millis() returns
  clockLeft,   \* how many more milliseconds the model lets millis() advance
  wifiUp,      \* environment: WiFi.status() == WL_CONNECTED
  brokerUp,    \* environment: the broker accepts connections
  mqttUp,      \* mqttClient.connected()
  subs,        \* the topics the current bus session has subscribed to
  feed,        \* environment: messages the broker may publish, times NTP may give
  msg,         \* the MQTT message handled last: topic and payload
  cyc,         \* what happened so far in the current loop() cycle
  before       \* leds, override and brightness as the call under study began

overrideVars == <<mqttColorActive, mqttColor, brightness>>
clockVars == <<now, clockLeft>>
envVars == <<wifiUp, brokerUp, feed>>
sketchVars == <<variant, stripBrightness, stored, wifiConnected, timeout,
                lastTimeSync, currentHour, currentMinute, mqttUp, subs, cyc>>

vars == <<pc, arg, leds, overrideVars, clockVars, envVars, sketchVars, msg,
          before>>

-----------------------------------------------------------------------------
(* Program constants *)

LEDCLOCK_COUNT == 86
clockColour == 13685629      \* 0xD0D37D

LedIndex == 0 .. (LEDCLOCK_COUNT - 1)
Off == 0

\* A uint32_t, held as its two 16-bit halves (the model checker's integers
\* are 32-bit signed).  ToU32 is the conversion of an integer to uint32_t.
ToU32(n) == [hi |-> (n \div 65536) % 65536, lo |-> n % 65536]

-----------------------------------------------------------------------------
(* Bounds of the model *)

MaxBase == 67        \* displayNumber is tried at every offset 0..MaxBase

Digits == 0 .. 9
Hours == 0 .. 23
Minutes == 0 .. 59
Bases == 0 .. MaxBase
RenderColors == {ToU32(0), ToU32(clockColour), ToU32(\hFF0000)}

-----------------------------------------------------------------------------
(* Adafruit_NeoPixel, as the sketch uses it *)

ToU16(n) == n % 65536

\* What setPixelColor stores for colour c on this 3-byte (NEO_GRB) strip:
\* its red, green and blue bytes, the low 24 bits.
PixelOf(c) == (c.hi % 256) * 65536 + c.lo

\* stripClock.clear()
clear(buf) == [i \in LedIndex |-> Off]

\* stripClock.fill(c, first, count): first and count are uint16_t; a first
\* beyond the strip does nothing, the run is cut at the strip's end.
fill(buf, c, first, count) ==
  LET f == ToU16(first)
      n == ToU16(count)
      end == IF n = 0 THEN LEDCLOCK_COUNT
             ELSE IF f + n > LEDCLOCK_COUNT THEN LEDCLOCK_COUNT ELSE f + n
  IN  IF f >= LEDCLOCK_COUNT THEN buf
      ELSE [i \in LedIndex |-> IF i >= f /\ i < end THEN PixelOf(c) ELSE buf[i]]

-----------------------------------------------------------------------------
(* The digit glyphs *)

digitZero(buf, offsetBy, colourToUse) ==
  LET b1 == fill(buf, colourToUse, offsetBy, 3)
      b2 == fill(b1, colourToUse, offsetBy + 3, 3)
      b3 == fill(b2, colourToUse, offsetBy + 6, 3)
      b4 == fill(b3, colourToUse, offsetBy + 9, 3)
      b5 == fill(b4, colourToUse, offsetBy + 12, 3)
  IN  fill(b5, colourToUse, offsetBy + 15, 3)

digitOne(buf, offsetBy, colourToUse) ==
  LET b1 == fill(buf, colourToUse, offsetBy, 3)
  IN  fill(b1, colourToUse, offsetBy + 15, 3)

digitTwo(buf, offsetBy, colourToUse) ==
  LET b1 == fill(buf, colourToUse, offsetBy + 3, 3)
      b2 == fill(b1, colourToUse, offsetBy + 6, 3)
      b3 == fill(b2, colourToUse, offsetBy + 12, 3)
      b4 == fill(b3, colourToUse, offsetBy + 15, 3)
  IN  fill(b4, colourToUse, offsetBy + 18, 3)

digitThree(buf, offsetBy, colourToUse) ==
  LET b1 == fill(buf, colourToUse, offsetBy, 3)
      b2 == fill(b1, colourToUse, offsetBy + 3, 3)
      b3 == fill(b2, colourToUse, offsetBy + 12, 3)
      b4 == fill(b3, colourToUse, offsetBy + 15, 3)
  IN  fill(b4, colourToUse, offsetBy + 18, 3)

digitFour(buf, offsetBy, colourToUse) ==
  LET b1 == fill(buf, colourToUse, offsetBy, 3)
      b2 == fill(b1, colourToUse, offsetBy + 9, 3)
      b3 == fill(b2, colourToUse, offsetBy + 15, 3)
  IN  fill(b3, colourToUse, offsetBy + 18, 3)

digitFive(buf, offsetBy, colourToUse) ==
  LET b1 == fill(buf, colourToUse, offsetBy, 3)
      b2 == fill(b1, colourToUse, offsetBy + 3, 3)
      b3 == fill(b2, colourToUse, offsetBy + 9, 3)
      b4 == fill(b3, colourToUse, offsetBy + 12, 3)
  IN  fill(b4, colourToUse, offsetBy + 18, 3)

digitSix(buf, offsetBy, colourToUse) ==
  LET b1 == fill(buf, colourToUse, offsetBy, 3)
      b2 == fill(b1, colourToUse, offsetBy + 3, 3)
      b3 == fill(b2, colourToUse, offsetBy + 6, 3)
      b4 == fill(b3, colourToUse, offsetBy + 9, 3)
      b5 == fill(b4, colourToUse, offsetBy + 12, 3)
  IN  fill(b5, colourToUse, offsetBy + 18, 3)

digitSeven(buf, offsetBy, colourToUse) ==
  LET b1 == fill(buf, colourToUse, offsetBy, 3)
      b2 == fill(b1, colourToUse, offsetBy + 12, 3)
  IN  fill(b2, colourToUse, offsetBy + 15, 3)

digitEight(buf, offsetBy, colourToUse) ==
  LET b1 == fill(buf, colourToUse, offsetBy, 3)
      b2 == fill(b1, colourToUse, offsetBy + 3, 3)
      b3 == fill(b2, colourToUse, offsetBy + 6, 3)
      b4 == fill(b3, colourToUse, offsetBy + 9, 3)
      b5 == fill(b4, colourToUse, offsetBy + 12, 3)
      b6 == fill(b5, colourToUse, offsetBy + 15, 3)
  IN  fill(b6, colourToUse, offsetBy + 18, 3)

digitNine(buf, offsetBy, colourToUse) ==
  LET b1 == fill(buf, colourToUse, offsetBy, 3)
      b2 == fill(b1, colourToUse, offsetBy + 9, 3)
      b3 == fill(b2, colourToUse, offsetBy + 12, 3)
      b4 == fill(b3, colourToUse, offsetBy + 15, 3)
  IN  fill(b4, colourToUse, offsetBy + 18, 3)

\* A plausible slip: the 0 glyph copied from the 8 glyph, middle bar kept.
displayNumberZeroAsEight(buf, digitToDisplay, offsetBy, colourToUse) ==
  CASE digitToDisplay = 0 -> digitEight(buf, offsetBy, colourToUse)
    [] digitToDisplay = 1 -> digitOne(buf, offsetBy, colourToUse)
    [] digitToDisplay = 2 -> digitTwo(buf, offsetBy, colourToUse)
    [] digitToDisplay = 3 -> digitThree(buf, offsetBy, colourToUse)
    [] digitToDisplay = 4 -> digitFour(buf, offsetBy, colourToUse)
    [] digitToDisplay = 5 -> digitFive(buf, offsetBy, colourToUse)
    [] digitToDisplay = 6 -> digitSix(buf, offsetBy, colourToUse)
    [] digitToDisplay = 7 -> digitSeven(buf, offsetBy, colourToUse)
    [] digitToDisplay = 8 -> digitEight(buf, offsetBy, colourToUse)
    [] digitToDisplay = 9 -> digitNine(buf, offsetBy, colourToUse)
    [] OTHER -> buf

displayNumber(buf, digitToDisplay, offsetBy, colourToUse) ==
  CASE digitToDisplay = 0 -> digitZero(buf, offsetBy, colourToUse)
    [] digitToDisplay = 1 -> digitOne(buf, offsetBy, colourToUse)
    [] digitToDisplay = 2 -> digitTwo(buf, offsetBy, colourToUse)
    [] digitToDisplay = 3 -> digitThree(buf, offsetBy, colourToUse)
    [] digitToDisplay = 4 -> digitFour(buf, offsetBy, colourToUse)
    [] digitToDisplay = 5 -> digitFive(buf, offsetBy, colourToUse)
    [] digitToDisplay = 6 -> digitSix(buf, offsetBy, colourToUse)
    [] digitToDisplay = 7 -> digitSeven(buf, offsetBy, colourToUse)
    [] digitToDisplay = 8 -> digitEight(buf, offsetBy, colourToUse)
    [] digitToDisplay = 9 -> digitNine(buf, offsetBy, colourToUse)
    [] OTHER -> buf

-----------------------------------------------------------------------------
(* The frame: displayTheTime up to stripClock.show() *)

\* A plausible slip: the tens digit is drawn for every hour (leading zero).
displayTheTimeLeadingZero(buf, hour, minute, currentColor) ==
  LET b0 == clear(buf)
      b1 == displayNumber(b0, minute % 10, 0, currentColor)
      b2 == displayNumber(b1, minute \div 10, 21, currentColor)
      b3 == fill(b2, currentColor, 42, 1)
      b4 == fill(b3, currentColor, 43, 1)
  IN  displayNumber(displayNumber(b4, hour \div 10, 65, currentColor),
                    hour % 10, 44, currentColor)

\* A plausible slip: the frame is painted over the previous one.
displayTheTimeNoClear(buf, hour, minute, currentColor) ==
  LET b1 == displayNumber(buf, minute % 10, 0, currentColor)
      b2 == displayNumber(b1, minute \div 10, 21, currentColor)
      b3 == fill(b2, currentColor, 42, 1)
      b4 == fill(b3, currentColor, 43, 1)
  IN  IF hour > 9
      THEN displayNumber(displayNumber(b4, hour \div 10, 65, currentColor),
                         hour % 10, 44, currentColor)
      ELSE displayNumber(b4, hour, 44, currentColor)

\* A plausible slip: the hours-tens digit placed one LED too far (66).
displayTheTimeTensShifted(buf, hour, minute, currentColor) ==
  LET b1 == displayNumber(clear(buf), minute % 10, 0, currentColor)
      b2 == displayNumber(b1, minute \div 10, 21, currentColor)
      b3 == fill(b2, currentColor, 42, 1)
      b4 == fill(b3, currentColor, 43, 1)
  IN  IF hour > 9
      THEN displayNumber(displayNumber(b4, hour \div 10, 66, currentColor),
                         hour % 10, 44, currentColor)
      ELSE displayNumber(b4, hour, 44, currentColor)

displayTheTime(buf, hour, minute, currentColor) ==
  LET b0 == clear(buf)
      firstMinuteDigit == minute % 10
      b1 == displayNumber(b0, firstMinuteDigit, 0, currentColor)
      secondMinuteDigit == minute \div 10
      b2 == displayNumber(b1, secondMinuteDigit, 21, currentColor)
      b3 == fill(b2, currentColor, 42, 1)
      b4 == fill(b3, currentColor, 43, 1)
  IN  IF hour > 9
      THEN displayNumber(displayNumber(b4, hour \div 10, 65, currentColor),
                         hour % 10, 44, currentColor)
      ELSE displayNumber(b4, hour, 44, currentColor)


-----------------------------------------------------------------------------
(* C strings and the C library calls of mqttCallback.  A string is the      *)
(* sequence of its characters up to the terminating NUL; position           *)
(* Len(s) + 1 is the NUL.                                                    *)

DecDigits == <<"0", "1", "2", "3", "4", "5", "6", "7", "8", "9">>
LowerLetters == <<"a", "b", "c", "d", "e", "f", "g", "h", "i", "j", "k", "l",
                  "m", "n", "o", "p", "q", "r", "s", "t", "u", "v", "w", "x",
                  "y", "z">>
UpperLetters == <<"A", "B", "C", "D", "E", "F", "G", "H", "I", "J", "K", "L",
                  "M", "N", "O", "P", "Q", "R", "S", "T", "U", "V", "W", "X",
                  "Y", "Z">>

PosIn(seq, c) ==
  IF \E i \in 1 .. Len(seq) : seq[i] = c
  THEN CHOOSE i \in 1 .. Len(seq) : seq[i] = c
  ELSE 0

isspace(c) == c \in {" ", "\t", "\n", "\r"}

\* The value strtol gives a character as a digit; -1 for any other character.
DigitValue(c) ==
  IF PosIn(DecDigits, c) > 0 THEN PosIn(DecDigits, c) - 1
  ELSE IF PosIn(LowerLetters, c) > 0 THEN PosIn(LowerLetters, c) + 9
  ELSE IF PosIn(UpperLetters, c) > 0 THEN PosIn(UpperLetters, c) + 9
  ELSE -1

RECURSIVE SkipSpace(_, _)
SkipSpace(s, i) ==
  IF i <= Len(s) /\ isspace(s[i]) THEN SkipSpace(s, i + 1) ELSE i

\* The digit loop of strtol: from position i, with acc so far; any tells
\* whether a digit was consumed.  Gives the value and the stop position.
RECURSIVE Accumulate(_, _, _, _, _)
Accumulate(s, i, base, acc, any) ==
  IF i <= Len(s) /\ DigitValue(s[i]) >= 0 /\ DigitValue(s[i]) < base
  THEN Accumulate(s, i + 1, base, acc * base + DigitValue(s[i]), TRUE)
  ELSE [acc |-> acc, i |-> i, any |-> any]

\* strtol(s, &endptr, base), base 10 or 16: leading white space, an optional
\* sign, for base 16 an optional 0x or 0X, then digits.  end is the position
\* endptr points to: the first character not consumed, or the start of s when
\* no digit was consumed.  The sketch passes at most 7 characters, so the
\* accumulated value always fits a 32-bit long.
strtol(s, base) ==
  LET i0 == SkipSpace(s, 1)
      neg == i0 <= Len(s) /\ s[i0] = "-"
      i1 == IF i0 <= Len(s) /\ s[i0] \in {"-", "+"} THEN i0 + 1 ELSE i0
      prefixed == /\ base = 16
                  /\ i1 + 1 <= Len(s)
                  /\ s[i1] = "0"
                  /\ s[i1 + 1] \in {"x", "X"}
      i2 == IF prefixed THEN i1 + 2 ELSE i1
      r == Accumulate(s, i2, base, 0, FALSE)
  IN  [val |-> IF neg THEN 0 - r.acc ELSE r.acc,
       end |-> IF r.any THEN r.i ELSE 1]

atoi(s) == strtol(s, 10).val

Min(a, b) == IF a < b THEN a ELSE b

\* A plausible slip: the copy loop bound off by one (i < 6).
colorStrShort(payload) == SubSeq(payload, 1, Min(Len(payload), 6))

\* char colorStr[8] = {0}; the first 7 payload bytes are copied
colorStrOf(payload) == SubSeq(payload, 1, Min(Len(payload), 7))

\* A plausible slip: the copy loop bound too small (i < 2).
brightnessStrShort(payload) == SubSeq(payload, 1, Min(Len(payload), 2))

\* char brightnessStr[5] = {0}; the first 4 payload bytes are copied
brightnessStrOf(payload) == SubSeq(payload, 1, Min(Len(payload), 4))

-----------------------------------------------------------------------------
(* mqttCallback(topic, payload, length): st is the override state it reads  *)
(* and writes, cfg the stored settings.                                     *)

\* A plausible slip: the colour branch returns at once and leaves the
\* override as it is.
colorBranchKeepsOnEmpty(payload, st) == [st |-> st, returned |-> TRUE]

\* The colour branch; returned tells that the callback returned inside it.
colorBranch(payload, st) ==
  IF Len(payload) = 0
  THEN [st |-> [st EXCEPT !.active = FALSE], returned |-> TRUE]
  ELSE LET colorStr == colorStrOf(payload)
           hexStr == IF colorStr[1] = "#" THEN Tail(colorStr) ELSE colorStr
           r == strtol(hexStr, 16)
       IN  IF r.end = Len(hexStr) + 1 /\ Len(hexStr) = 6
           THEN [st |-> [st EXCEPT !.color = ToU32(r.val), !.active = TRUE],
                 returned |-> FALSE]
           ELSE [st |-> [st EXCEPT !.active = FALSE], returned |-> FALSE]

brightnessBranch(payload, st) ==
  IF Len(payload) > 0
  THEN LET val == atoi(brightnessStrOf(payload))
       IN  IF val >= 0 /\ val <= 255
           THEN [st EXCEPT !.brightness = val]
           ELSE st
  ELSE st

\* A plausible slip: every message that is not on the colour topic is taken
\* for a brightness message.
mqttCallbackElseBrightness(topic, payload, st, cfg) ==
  IF topic = cfg.mqtt_color_topic
  THEN colorBranch(payload, st).st
  ELSE brightnessBranch(payload, st)

mqttCallback(topic, payload, st, cfg) ==
  LET c == IF topic = cfg.mqtt_color_topic
           THEN colorBranch(payload, st)
           ELSE [st |-> st, returned |-> FALSE]
  IN  IF c.returned THEN c.st
      ELSE IF topic = cfg.mqtt_brightness_topic
           THEN brightnessBranch(payload, c.st)
           ELSE c.st

\* The override state as a record, and the pieces of state a call starts from
Override == [active |-> mqttColorActive, color |-> mqttColor,
             brightness |-> brightness]

Snapshot == [leds |-> leds, active |-> mqttColorActive, color |-> mqttColor,
             brightness |-> brightness]

MQTT_COLOR_TOPIC == "YOUR/COLOR/TOPIC"
MQTT_BRIGHTNESS_TOPIC == "YOUR/BRIGHTNESS/TOPIC"

\* The settings as compiled in (and the defaults of the stored ones)
CompiledSettings ==
  [ssid |-> "YOUR_WIFI_SSID",
   mqtt_color_topic |-> MQTT_COLOR_TOPIC,
   mqtt_brightness_topic |-> MQTT_BRIGHTNESS_TOPIC]

NoMsg == [topic |-> "", payload |-> <<>>]

\* No call studied on its own has been made
NoArg == [fn |-> "none", digit |-> 0, offset |-> 0, hour |-> 0, minute |-> 0,
          color |-> ToU32(0)]

-----------------------------------------------------------------------------
(* millis(), delay() and unsigned long arithmetic                           *)

syncInterval == 900000

AddU32(a, n) ==
  LET lo == a.lo + (n % 65536)
      hi == a.hi + (n \div 65536) + (lo \div 65536)
  IN  [hi |-> hi % 65536, lo |-> lo % 65536]

\* a - b in unsigned 32-bit arithmetic
SubU32(a, b) ==
  LET lo == a.lo - b.lo
      hi == (a.hi - b.hi) + (lo \div 65536)
  IN  [hi |-> hi % 65536, lo |-> lo % 65536]

GtU32(a, b) == a.hi > b.hi \/ (a.hi = b.hi /\ a.lo > b.lo)

\* delay(ms): millis() moves on by ms.  The model's clock runs for clockLeft
\* more milliseconds and then stands still, which keeps the model finite: in
\* the behaviours past that point no further resync falls due.
Delay(ms) ==
  IF clockLeft >= ms
  THEN now' = AddU32(now, ms) /\ clockLeft' = clockLeft - ms
  ELSE now' = now /\ clockLeft' = 0

\* A plausible slip: the check written as  millis() > lastTimeSync + syncInterval
ResyncDueBySum == GtU32(now, AddU32(lastTimeSync, syncInterval))

\* millis() - lastTimeSync > syncInterval
ResyncDue == GtU32(SubU32(now, lastTimeSync), ToU32(syncInterval))

-----------------------------------------------------------------------------
(* The sketch: setup() and loop(), one action per step between two reads of *)
(* the environment.                                                         *)

\* What the running cycle has seen so far: lost, the bus session was down at
\* the bus check; colorMsg, a message on the colour topic was handled;
\* timeFailed, getLocalTime failed.
NewCycle == [lost |-> FALSE, colorMsg |-> FALSE, timeFailed |-> FALSE]

\* A plausible slip: only the colour topic is subscribed after a connect.
OnlyColorTopic(cfg) == {cfg.mqtt_color_topic}

BothTopics(cfg) == {cfg.mqtt_color_topic, cfg.mqtt_brightness_topic}

\* The globals as their initialisers leave them, before setup() runs
Globals ==
  /\ mqttColorActive = FALSE
  /\ mqttColor = ToU32(0)
  /\ brightness = 25
  /\ stripBrightness = 255
  /\ wifiConnected = FALSE
  /\ timeout = 0
  /\ lastTimeSync = ToU32(0)
  /\ currentHour = 0
  /\ currentMinute = 0
  /\ mqttUp = FALSE
  /\ subs = {}
  /\ cyc = NewCycle

\* The parts of the state a call studied on its own leaves alone
SketchAtRest ==
  /\ variant = "portal"
  /\ stripBrightness = 255
  /\ stored = CompiledSettings
  /\ wifiConnected = FALSE
  /\ timeout = 0
  /\ lastTimeSync = ToU32(0)
  /\ currentHour = 0
  /\ currentMinute = 0
  /\ mqttUp = FALSE
  /\ subs = {}
  /\ cyc = NewCycle
  /\ now = ToU32(0)
  /\ clockLeft = 0
  /\ wifiUp = FALSE
  /\ brokerUp = FALSE
  /\ feed = [msgs |-> {}, times |-> {}]

\* setup() up to its Wi-Fi wait.  portal: the settings are loaded and
\* connectToWiFi() starts (or returns false at once for an empty SSID).
\* fixed: server, callback, time zone, delay(150), strip, then connectToWiFi().
Setup ==
  /\ pc = "boot"
  /\ IF variant = "portal"
     THEN /\ IF stored.ssid = ""
             THEN pc' = "portal" /\ UNCHANGED timeout
             ELSE pc' = "setupWifi" /\ timeout' = 15
          /\ UNCHANGED <<leds, stripBrightness, clockVars>>
     ELSE /\ Delay(150)
          /\ leds' = clear(leds)
          /\ stripBrightness' = brightness
          /\ pc' = "setupWifi" /\ timeout' = 15
  /\ UNCHANGED <<arg, overrideVars, envVars, variant, stored, wifiConnected,
                 lastTimeSync, currentHour, currentMinute, mqttUp, subs, cyc,
                 msg, before>>

\* A plausible slip: the wait loop without its countdown
\* (while (WiFi.status() != WL_CONNECTED) delay(1000);).
WifiPollNoCountdown ==
  /\ pc \in {"setupWifi", "loopWifi"}
  /\ IF wifiUp
     THEN pc' = (IF pc = "setupWifi" THEN "setupWifiDone" ELSE "loopWifiDone")
          /\ UNCHANGED clockVars
     ELSE Delay(1000) /\ pc' = pc
  /\ UNCHANGED <<arg, leds, overrideVars, envVars, sketchVars, msg, before>>

\* One evaluation of  while (WiFi.status() != WL_CONNECTED && timeout-- > 0)
\* and, when it holds, the body delay(1000).
WifiPoll ==
  /\ pc \in {"setupWifi", "loopWifi"}
  /\ IF wifiUp
     THEN /\ pc' = (IF pc = "setupWifi" THEN "setupWifiDone" ELSE "loopWifiDone")
          /\ UNCHANGED <<timeout, clockVars>>
     ELSE IF timeout > 0
          THEN /\ timeout' = timeout - 1
               /\ Delay(1000)
               /\ pc' = pc
          ELSE /\ timeout' = timeout - 1
               /\ pc' = (IF pc = "setupWifi" THEN "setupWifiDone"
                         ELSE "loopWifiDone")
               /\ UNCHANGED clockVars
  /\ UNCHANGED <<arg, leds, overrideVars, envVars, variant, stripBrightness,
                 stored, wifiConnected, lastTimeSync, currentHour,
                 currentMinute, mqttUp, subs, cyc, msg, before>>

\* if (WiFi.status() == WL_CONNECTED) wifiConnected = true;  and where the
\* caller goes on: setup() of portal opens the portal when connectToWiFi()
\* returned false.  The local timeout goes out of scope.
WifiDone ==
  /\ pc \in {"setupWifiDone", "loopWifiDone"}
  /\ wifiConnected' = (IF wifiUp THEN TRUE ELSE wifiConnected)
  /\ timeout' = 0
  /\ pc' = IF pc = "loopWifiDone" THEN "resync"
           ELSE IF variant = "fixed" THEN "loopTop"
           ELSE IF wifiUp THEN "setupRest" ELSE "portal"
  /\ UNCHANGED <<arg, leds, overrideVars, clockVars, envVars, variant,
                 stripBrightness, stored, lastTimeSync, currentHour,
                 currentMinute, mqttUp, subs, cyc, msg, before>>

\* portal: the rest of setup() after connectToWiFi() returned true
SetupRest ==
  /\ pc = "setupRest"
  /\ Delay(150)
  /\ leds' = clear(leds)
  /\ stripBrightness' = brightness
  /\ pc' = "loopTop"
  /\ UNCHANGED <<arg, overrideVars, envVars, variant, stored, wifiConnected,
                 timeout, lastTimeSync, currentHour, currentMinute, mqttUp,
                 subs, cyc, msg, before>>

\* startConfigPortal(): while (true) { server.handleClient(); delay(10); }
PortalServe ==
  /\ pc = "portal"
  /\ Delay(10)
  /\ UNCHANGED <<pc, arg, leds, overrideVars, envVars, sketchVars, msg, before>>

\* What the form of the portal may carry: no SSID, or a full set of settings
FormInputs == {[CompiledSettings EXCEPT !.ssid = ""], CompiledSettings}

\* The /save handler: the settings are stored, delay(1000), ESP.restart():
\* every global is back at its initialiser and millis() starts again.
PortalSave ==
  /\ pc = "portal"
  /\ \E f \in FormInputs : stored' = f
  /\ pc' = "boot"
  /\ mqttColorActive' = FALSE
  /\ mqttColor' = ToU32(0)
  /\ brightness' = 25
  /\ stripBrightness' = 255
  /\ wifiConnected' = FALSE
  /\ timeout' = 0
  /\ lastTimeSync' = ToU32(0)
  /\ currentHour' = 0
  /\ currentMinute' = 0
  /\ mqttUp' = FALSE
  /\ subs' = {}
  /\ cyc' = NewCycle
  /\ leds' = [i \in LedIndex |-> Off]
  /\ now' = ToU32(0)
  /\ UNCHANGED <<arg, clockLeft, envVars, variant, msg, before>>

\* The top of loop(): the Wi-Fi check that opens the reconnect wait.
LoopTop ==
  /\ pc = "loopTop"
  /\ cyc' = NewCycle
  /\ IF wifiUp
     THEN pc' = "resync" /\ UNCHANGED timeout
     ELSE /\ pc' = "loopWifi"
          /\ timeout' = (IF variant = "portal" THEN 10 ELSE 15)
  /\ UNCHANGED <<arg, leds, overrideVars, clockVars, envVars, variant,
                 stripBrightness, stored, wifiConnected, lastTimeSync,
                 currentHour, currentMinute, mqttUp, subs, msg, before>>

\* if (millis() - lastTimeSync > syncInterval) { configTzTime; lastTimeSync = millis(); }
Resync ==
  /\ pc = "resync"
  /\ IF ResyncDue
     THEN lastTimeSync' = now
     ELSE UNCHANGED lastTimeSync
  /\ pc' = "timeRead"
  /\ UNCHANGED <<arg, leds, overrideVars, clockVars, envVars, variant,
                 stripBrightness, stored, wifiConnected, timeout, currentHour,
                 currentMinute, mqttUp, subs, cyc, msg, before>>

\* A plausible slip: a failed read resets the time shown to 0:00.
TimeReadZeroOnFailure ==
  /\ pc = "timeRead"
  /\ \E t \in feed.times \cup {<<-1, -1>>} :
       IF t = <<-1, -1>>
       THEN /\ currentHour' = 0 /\ currentMinute' = 0
            /\ cyc' = [cyc EXCEPT !.timeFailed = TRUE]
       ELSE /\ currentHour' = t[1] /\ currentMinute' = t[2]
            /\ UNCHANGED cyc
  /\ pc' = "busCheck"
  /\ UNCHANGED <<arg, leds, overrideVars, clockVars, envVars, variant,
                 stripBrightness, stored, wifiConnected, timeout, lastTimeSync,
                 mqttUp, subs, msg, before>>

\* getLocalTime(&timeinfo): fails, or gives one of the times of the feed
TimeRead ==
  /\ pc = "timeRead"
  /\ \E t \in feed.times \cup {<<-1, -1>>} :
       IF t = <<-1, -1>>
       THEN /\ UNCHANGED <<currentHour, currentMinute>>
            /\ cyc' = [cyc EXCEPT !.timeFailed = TRUE]
       ELSE /\ currentHour' = t[1] /\ currentMinute' = t[2]
            /\ UNCHANGED cyc
  /\ pc' = "busCheck"
  /\ UNCHANGED <<arg, leds, overrideVars, clockVars, envVars, variant,
                 stripBrightness, stored, wifiConnected, timeout, lastTimeSync,
                 mqttUp, subs, msg, before>>

\* if (!mqttClient.connected()) { connectToMQTT(); ... }  In fixed the whole
\* bus part is skipped while Wi-Fi is down, and connectToMQTT() looks at the
\* Wi-Fi once more before its loop.
BusCheck ==
  /\ pc = "busCheck"
  /\ cyc' = [cyc EXCEPT !.lost = ~mqttUp]
  /\ pc' = IF variant = "fixed" /\ ~wifiUp THEN "render"
           ELSE IF mqttUp THEN "mqttLoop"
           ELSE IF variant = "fixed" THEN "mqttEnter"
           ELSE "mqttConnect"
  /\ UNCHANGED <<arg, leds, overrideVars, clockVars, envVars, variant,
                 stripBrightness, stored, wifiConnected, timeout, lastTimeSync,
                 currentHour, currentMinute, mqttUp, subs, msg, before>>

\* fixed: connectToMQTT() begins with  if (WiFi.status() == WL_CONNECTED);
\* when it does not hold the function returns and the override is reset.
MqttEnter ==
  /\ pc = "mqttEnter"
  /\ IF wifiUp
     THEN pc' = "mqttConnect" /\ UNCHANGED mqttColorActive
     ELSE pc' = "mqttLoop" /\ mqttColorActive' = FALSE
  /\ UNCHANGED <<arg, leds, mqttColor, brightness, clockVars, envVars,
                 sketchVars, msg, before>>

\* One turn of  while (!mqttClient.connected()): the session is down, so
\* connect; on success subscribe to both topics, on failure go to the delay.
MqttTry ==
  /\ pc = "mqttConnect"
  /\ ~mqttUp
  /\ IF wifiUp /\ brokerUp
     THEN /\ mqttUp' = TRUE
          /\ subs' = BothTopics(stored)
          /\ pc' = "mqttConnect"
     ELSE /\ pc' = "mqttRetry"
          /\ UNCHANGED <<mqttUp, subs>>
  /\ UNCHANGED <<arg, leds, overrideVars, clockVars, envVars, variant,
                 stripBrightness, stored, wifiConnected, timeout, lastTimeSync,
                 currentHour, currentMinute, cyc, msg, before>>

\* The else branch: delay(5000), then the while condition again
MqttRetry ==
  /\ pc = "mqttRetry"
  /\ Delay(5000)
  /\ pc' = "mqttConnect"
  /\ UNCHANGED <<arg, leds, overrideVars, envVars, sketchVars, msg, before>>

\* A plausible slip: the fallback after a reconnect resets the brightness too.
MqttConnectedResetsAll ==
  /\ pc = "mqttConnect"
  /\ mqttUp
  /\ mqttColorActive' = FALSE
  /\ brightness' = 25
  /\ pc' = "mqttLoop"
  /\ UNCHANGED <<arg, leds, mqttColor, clockVars, envVars, sketchVars, msg,
                 before>>

\* The while loop ends with the session connected; back in loop():
\* mqttColorActive = false;
MqttConnected ==
  /\ pc = "mqttConnect"
  /\ mqttUp
  /\ mqttColorActive' = FALSE
  /\ pc' = "mqttLoop"
  /\ UNCHANGED <<arg, leds, mqttColor, brightness, clockVars, envVars,
                 sketchVars, msg, before>>

\* A plausible slip: a pass in which no message arrived makes no frame.
MqttLoopSkipsFrame ==
  /\ pc = "mqttLoop"
  /\ \E m \in (IF mqttUp THEN {x \in feed.msgs : x.topic \in subs} ELSE {})
                \cup {NoMsg} :
       IF m = NoMsg
       THEN pc' = "sleep" /\ UNCHANGED <<overrideVars, msg, cyc>>
       ELSE LET st == mqttCallback(m.topic, m.payload, Override, stored)
            IN  /\ mqttColorActive' = st.active
                /\ mqttColor' = st.color
                /\ brightness' = st.brightness
                /\ msg' = m
                /\ cyc' = [cyc EXCEPT !.colorMsg =
                             (m.topic = stored.mqtt_color_topic)]
                /\ pc' = "render"
  /\ UNCHANGED <<arg, leds, clockVars, envVars, variant, stripBrightness,
                 stored, wifiConnected, timeout, lastTimeSync, currentHour,
                 currentMinute, mqttUp, subs, before>>

\* mqttClient.loop(): at most one received packet is handed to mqttCallback
MqttLoop ==
  /\ pc = "mqttLoop"
  /\ \E m \in (IF mqttUp THEN {x \in feed.msgs : x.topic \in subs} ELSE {})
                \cup {NoMsg} :
       IF m = NoMsg
       THEN UNCHANGED <<overrideVars, msg, cyc>>
       ELSE LET st == mqttCallback(m.topic, m.payload, Override, stored)
            IN  /\ mqttColorActive' = st.active
                /\ mqttColor' = st.color
                /\ brightness' = st.brightness
                /\ msg' = m
                /\ cyc' = [cyc EXCEPT !.colorMsg =
                             (m.topic = stored.mqtt_color_topic)]
  /\ pc' = "render"
  /\ UNCHANGED <<arg, leds, clockVars, envVars, variant, stripBrightness,
                 stored, wifiConnected, timeout, lastTimeSync, currentHour,
                 currentMinute, mqttUp, subs, before>>

\* A plausible slip: the override colour is used whether active or not.
displayColorAlwaysOverride == mqttColor

\* uint32_t displayColor = clockColour; if (mqttColorActive) displayColor = mqttColor;
displayColor == IF mqttColorActive THEN mqttColor ELSE ToU32(clockColour)

\* setBrightness, displayTheTime (clear, paint, show)
Render ==
  /\ pc = "render"
  /\ stripBrightness' = brightness
  /\ leds' = displayTheTime(leds, currentHour, currentMinute, displayColor)
  /\ pc' = "sleep"
  /\ UNCHANGED <<arg, overrideVars, clockVars, envVars, variant, stored,
                 wifiConnected, timeout, lastTimeSync, currentHour,
                 currentMinute, mqttUp, subs, cyc, msg, before>>

\* A plausible slip: the delay chosen by the state of the link, not the flag
SleepByLinkState ==
  /\ pc = "sleep"
  /\ Delay(IF wifiUp THEN 500 ELSE 100)
  /\ pc' = "loopTop"
  /\ UNCHANGED <<arg, leds, overrideVars, envVars, sketchVars, msg, before>>

\* if (wifiConnected) delay(500); else delay(100);
Sleep ==
  /\ pc = "sleep"
  /\ Delay(IF wifiConnected THEN 500 ELSE 100)
  /\ pc' = "loopTop"
  /\ UNCHANGED <<arg, leds, overrideVars, envVars, sketchVars, msg, before>>

\* One step of loop()
LoopStep ==
  \/ LoopTop \/ WifiPoll \/ WifiDone \/ Resync \/ TimeRead \/ BusCheck
  \/ MqttEnter \/ MqttTry \/ MqttRetry \/ MqttConnected \/ MqttLoop
  \/ Render \/ Sleep

\* One step of the sketch
Step == Setup \/ SetupRest \/ PortalServe \/ LoopStep

-----------------------------------------------------------------------------
(* The environment *)

Running == pc \notin {"idle", "returned", "handled", "portal"}

\* The Wi-Fi link comes up or goes down
WifiChanges ==
  /\ Running
  /\ wifiUp' = ~wifiUp
  /\ UNCHANGED <<pc, arg, leds, overrideVars, clockVars, brokerUp, feed,
                 sketchVars, msg, before>>

\* The broker becomes reachable or unreachable
BrokerChanges ==
  /\ Running
  /\ brokerUp' = ~brokerUp
  /\ UNCHANGED <<pc, arg, leds, overrideVars, clockVars, wifiUp, feed,
                 sketchVars, msg, before>>

\* The bus session is lost
SessionLost ==
  /\ Running
  /\ mqttUp
  /\ mqttUp' = FALSE
  /\ subs' = {}
  /\ UNCHANGED <<pc, arg, leds, overrideVars, clockVars, envVars, variant,
                 stripBrightness, stored, wifiConnected, timeout, lastTimeSync,
                 currentHour, currentMinute, cyc, msg, before>>

Environment == WifiChanges \/ BrokerChanges \/ SessionLost

-----------------------------------------------------------------------------
(* The sketch from power-up.  variant tells which of the two sketches runs:  *)
(* "portal" keeps its settings in flash and has the configuration portal,    *)
(* "fixed" has them compiled in.                                             *)

\* The messages that may arrive: a colour, a text on the colour topic that is
\* no colour, and a brightness
MsgFeed ==
  {[topic |-> MQTT_COLOR_TOPIC, payload |-> <<"F", "F", "0", "0", "0", "0">>],
   [topic |-> MQTT_COLOR_TOPIC, payload |-> <<"+", "1", "2", "3", "4", "5">>],
   [topic |-> MQTT_BRIGHTNESS_TOPIC, payload |-> <<"5", "0">>]}

TimeFeed == {<<23, 59>>}

\* Power-up.  Here the model's clock stands (clockLeft = 0), so that the
\* steps of the sketch and of the environment can be explored in full; what
\* depends on the time going by is studied from InitSync below.
Init ==
  /\ pc = "boot"
  /\ variant \in {"portal", "fixed"}
  /\ stored \in (IF variant = "portal" THEN FormInputs ELSE {CompiledSettings})
  /\ Globals
  /\ leds = [i \in LedIndex |-> Off]
  /\ now = ToU32(0)
  /\ clockLeft = 0
  /\ wifiUp \in BOOLEAN
  /\ brokerUp \in BOOLEAN
  /\ feed = [msgs |-> MsgFeed, times |-> TimeFeed]
  /\ arg = NoArg
  /\ msg = NoMsg
  /\ before = Snapshot

Next == Step \/ PortalSave \/ Environment

Spec == Init /\ [][Next]_vars

\* loop() and setup() are the only thread: whenever the sketch can take a
\* step, it does.  Nothing is assumed of the environment.
FairSpec == Init /\ [][Next]_vars /\ WF_vars(Step)

-----------------------------------------------------------------------------
(* The running loop close to a resync falling due: the clock runs for       *)
(* Horizon more milliseconds.  The time source has not answered yet, so the *)
(* clock face shows 0:00, and no message is under way.                      *)

Horizon == 20000

\* loop() is about to start, 899500 ms after the last sync; in the second
\* state millis() wraps 200 ms from now.
SyncStarts ==
  {[last |-> ToU32(0), now |-> ToU32(899500)],
   [last |-> SubU32(ToU32(0), ToU32(899700)),
    now |-> AddU32(SubU32(ToU32(0), ToU32(899700)), 899500)]}

InitSync ==
  /\ pc = "loopTop"
  /\ variant \in {"portal", "fixed"}
  /\ stored = CompiledSettings
  /\ mqttColorActive = FALSE
  /\ mqttColor = ToU32(0)
  /\ brightness = 25
  /\ stripBrightness = 25
  /\ wifiConnected = TRUE
  /\ timeout = 0
  /\ currentHour = 0
  /\ currentMinute = 0
  /\ mqttUp = TRUE
  /\ subs = BothTopics(stored)
  /\ cyc = NewCycle
  /\ leds = displayTheTime([i \in LedIndex |-> Off], 0, 0, ToU32(clockColour))
  /\ \E s \in SyncStarts : lastTimeSync = s.last /\ now = s.now
  /\ clockLeft = Horizon
  /\ wifiUp = TRUE
  /\ brokerUp = TRUE
  /\ feed = [msgs |-> {}, times |-> {}]
  /\ arg = NoArg
  /\ msg = NoMsg
  /\ before = Snapshot

NextSync == LoopStep \/ Environment

SpecSync == InitSync /\ [][NextSync]_vars

-----------------------------------------------------------------------------
(* The sketch from power-up as in Init, and beside it loop() about to start *)
(* a pass one minute after power-up with the clock running for LinkHorizon  *)
(* more milliseconds, so that the length of the delay that ends a pass      *)
(* shows.  fixed may be in loop() with wifiConnected false, portal not.     *)

LinkHorizon == 1500

InitLink ==
  /\ variant \in {"portal", "fixed"}
  /\ leds = [i \in LedIndex |-> Off]
  /\ wifiUp \in BOOLEAN
  /\ brokerUp \in BOOLEAN
  /\ feed = [msgs |-> {}, times |-> {}]
  /\ \/ /\ pc = "boot"
        /\ stored \in (IF variant = "portal" THEN FormInputs
                       ELSE {CompiledSettings})
        /\ Globals
        /\ now = ToU32(0)
        /\ clockLeft = 0
     \/ /\ pc = "loopTop"
        /\ stored = CompiledSettings
        /\ mqttColorActive = FALSE
        /\ mqttColor = ToU32(0)
        /\ brightness = 25
        /\ stripBrightness = 25
        /\ wifiConnected \in (IF variant = "portal" THEN {TRUE} ELSE BOOLEAN)
        /\ timeout = 0
        /\ lastTimeSync = ToU32(0)
        /\ currentHour = 0
        /\ currentMinute = 0
        /\ mqttUp = FALSE
        /\ subs = {}
        /\ cyc = NewCycle
        /\ now = ToU32(60000)
        /\ clockLeft = LinkHorizon
  /\ arg = NoArg
  /\ msg = NoMsg
  /\ before = Snapshot

SpecLink == InitLink /\ [][Next]_vars
-----------------------------------------------------------------------------
(* Rendering calls on their own: the inputs range over every digit, offset, *)
(* hour, minute and colour; the buffer they start from is one the sketch    *)
(* can hold (blank after begin(), or an earlier frame).                     *)

DigitsTried == -1 .. 10

PriorFrames ==
  { [i \in LedIndex |-> Off] } \cup
  { displayTheTime([i \in LedIndex |-> Off], t[1], t[2], c) :
      t \in {<<23, 59>>, <<18, 8>>}, c \in {ToU32(clockColour), ToU32(\h0000FF)} }

InitRender ==
  /\ pc = "idle"
  /\ arg = NoArg
  /\ leds \in PriorFrames
  /\ mqttColorActive = FALSE /\ mqttColor = ToU32(0) /\ brightness = 25
  /\ msg = NoMsg
  /\ SketchAtRest
  /\ before = Snapshot

DisplayNumberCall ==
  /\ pc = "idle"
  /\ \E d \in DigitsTried, o \in Bases, c \in RenderColors :
       /\ arg' = [NoArg EXCEPT !.fn = "displayNumber", !.digit = d,
                               !.offset = o, !.color = c]
       /\ leds' = displayNumber(leds, d, o, c)
  /\ before' = Snapshot
  /\ UNCHANGED <<overrideVars, clockVars, envVars, sketchVars, msg>>
  /\ pc' = "returned"

DisplayTheTimeCall ==
  /\ pc = "idle"
  /\ \E h \in Hours, m \in Minutes, c \in RenderColors :
       /\ arg' = [NoArg EXCEPT !.fn = "displayTheTime", !.hour = h,
                               !.minute = m, !.color = c]
       /\ leds' = displayTheTime(leds, h, m, c)
  /\ before' = Snapshot
  /\ UNCHANGED <<overrideVars, clockVars, envVars, sketchVars, msg>>
  /\ pc' = "returned"

NextRender == DisplayNumberCall \/ DisplayTheTimeCall

SpecRender == InitRender /\ [][NextRender]_vars


-----------------------------------------------------------------------------
(* One message handled on its own: every payload of the families below, on  *)
(* the colour topic, the brightness topic and a foreign topic, from an      *)
(* inactive and from an active override.                                    *)

MaxHexLen == 7        \* runs of hex characters of length 0..MaxHexLen
MaxFillLen == 6       \* runs around one inserted character, length 0..MaxFillLen
MaxDecimal == 300     \* decimal texts of -MaxNegative..MaxDecimal
MaxNegative == 12

HexChars == {"0", "a", "F"}
FillChars == {"0", "A"}
OddChars == {" ", "-", "+", "x", "g", "#"}

\* Runs of hex characters, bare and behind a '#'
HexRuns == UNION { [1 .. n -> HexChars] : n \in 0 .. MaxHexLen }

\* One odd character at any place in a run of hex characters
OddRuns ==
  UNION { { SubSeq(r, 1, p) \o <<o>> \o SubSeq(r, p + 1, Len(r)) :
              r \in [1 .. n -> FillChars], p \in 0 .. n, o \in OddChars }
          : n \in 0 .. MaxFillLen }

RECURSIVE NatText(_)
NatText(n) ==
  IF n < 10 THEN <<DecDigits[n + 1]>>
  ELSE NatText(n \div 10) \o <<DecDigits[(n % 10) + 1]>>

\* The decimal text of an integer, as printf("%d") writes it
DecText(v) == IF v < 0 THEN <<"-">> \o NatText(0 - v) ELSE NatText(v)

DecimalTexts ==
  { DecText(v) : v \in (0 - MaxNegative) .. MaxDecimal }
    \cup { DecText(v) : v \in {999, 1000, 1255, 2550, 9999, 10000, 25500,
                               65536, 65791} }

Payloads ==
  HexRuns \cup { <<"#">> \o r : r \in HexRuns }
    \cup OddRuns \cup { <<"#">> \o r : r \in OddRuns }
    \cup DecimalTexts

Topics == {MQTT_COLOR_TOPIC, MQTT_BRIGHTNESS_TOPIC, "some/other/topic"}

InitMsg ==
  /\ pc = "idle"
  /\ arg = NoArg
  /\ leds = [i \in LedIndex |-> Off]
  /\ \E st \in { [active |-> FALSE, color |-> ToU32(0), brightness |-> 25],
                 [active |-> TRUE, color |-> ToU32(\hFF0000), brightness |-> 200] } :
       /\ mqttColorActive = st.active
       /\ mqttColor = st.color
       /\ brightness = st.brightness
  /\ msg = NoMsg
  /\ SketchAtRest
  /\ before = Snapshot

\* PubSubClient hands one received message to the callback
HandleMessage ==
  /\ pc = "idle"
  /\ \E topic \in Topics, payload \in Payloads :
       LET st == mqttCallback(topic, payload, Override, stored)
       IN  /\ mqttColorActive' = st.active
           /\ mqttColor' = st.color
           /\ brightness' = st.brightness
           /\ msg' = [topic |-> topic, payload |-> payload]
  /\ before' = Snapshot
  /\ pc' = "handled"
  /\ UNCHANGED <<arg, leds, clockVars, envVars, sketchVars>>

NextMsg == HandleMessage

SpecMsg == InitMsg /\ [][NextMsg]_vars
-----------------------------------------------------------------------------
(* The segment table of the specification (section 3 and section 4.2)      *)

SegRel == [LR |-> 0, B |-> 3, LL |-> 6, UL |-> 9, T |-> 12, UR |-> 15, M |-> 18]

SegTable ==
  [d \in Digits |->
     CASE d = 0 -> {"LR", "B", "LL", "UL", "T", "UR"}
       [] d = 1 -> {"LR", "UR"}
       [] d = 2 -> {"B", "LL", "T", "UR", "M"}
       [] d = 3 -> {"LR", "B", "T", "UR", "M"}
       [] d = 4 -> {"LR", "UL", "UR", "M"}
       [] d = 5 -> {"LR", "B", "UL", "T", "M"}
       [] d = 6 -> {"LR", "B", "LL", "UL", "T", "M"}
       [] d = 7 -> {"LR", "T", "UR"}
       [] d = 8 -> {"LR", "B", "LL", "UL", "T", "UR", "M"}
       [] d = 9 -> {"LR", "UL", "T", "UR", "M"}]

\* The LEDs of digit d's glyph placed at base
Glyph(d, base) ==
  { i \in LedIndex : \E s \in SegTable[d] :
      i >= base + SegRel[s] /\ i < base + SegRel[s] + 3 }

Blank == [i \in LedIndex |-> Off]

\* buf shows exactly the LED set S in colour c, on a dark strip
ShowsExactly(buf, S, c) ==
  \A i \in LedIndex : buf[i] = (IF i \in S THEN c ELSE Off)

\* C1: displayNumber(d, base, color) on a cleared buffer sets to color exactly
\* the LEDs of d's segments in the spec table, [base+rel, base+rel+3) each,
\* and changes no other LED; digit 0 leaves the middle segment unlit.
C1_DigitMatchesTable ==
  (pc = "returned" /\ arg.fn = "displayNumber" /\ arg.digit \in Digits
     /\ before.leds = Blank)
  => /\ ShowsExactly(leds, Glyph(arg.digit, arg.offset), PixelOf(arg.color))
     /\ arg.digit = 0 =>
          \A i \in LedIndex :
            (i >= arg.offset + 18 /\ i <= arg.offset + 20) => leds[i] = Off

C1_Witness ==
  /\ pc = "returned" /\ arg.fn = "displayNumber" /\ before.leds = Blank
  /\ arg.digit = 0 /\ arg.offset = 44 /\ arg.color = ToU32(clockColour)
  /\ leds[44] = clockColour /\ leds[61] = clockColour /\ leds[62] = Off

\* The frame the specification describes for (hour, minute, color)
ExpectedFrameLeds(h, m) ==
  Glyph(m % 10, 0) \cup Glyph(m \div 10, 21) \cup {42, 43}
    \cup Glyph(h % 10, 44)
    \cup (IF h > 9 THEN Glyph(h \div 10, 65) ELSE {})

\* C2: after displayTheTime(hour, minute, color) the buffer shows, in color,
\* exactly minute mod 10 at 0, minute div 10 at 21, the separator 42 and 43,
\* hour mod 10 at 44 and, only when hour > 9, hour div 10 at 65; all other
\* LEDs are off.
C2_FrameMatchesLayout ==
  (pc = "returned" /\ arg.fn = "displayTheTime")
  => ShowsExactly(leds, ExpectedFrameLeds(arg.hour, arg.minute), PixelOf(arg.color))

C2_Witness ==
  /\ pc = "returned" /\ arg.fn = "displayTheTime"
  /\ arg.hour = 9 /\ arg.minute = 5 /\ arg.color = ToU32(clockColour)
  /\ before.leds # Blank
  /\ ShowsExactly(leds, Glyph(5, 0) \cup Glyph(0, 21) \cup {42, 43}
                          \cup Glyph(9, 44), clockColour)

HoursTensSlot == 65 .. 85

Lit(buf, i) == buf[i] # Off

\* C3 as claimed: with hour < 10 the hours-tens slot 65..85 is all off,
\* whatever was displayed before, and the slot has a lit LED iff hour >= 10.
C3_TensSlotLitIffTwoDigitHour ==
  (pc = "returned" /\ arg.fn = "displayTheTime")
  => /\ arg.hour < 10 => \A i \in HoursTensSlot : ~Lit(leds, i)
     /\ (\E i \in HoursTensSlot : Lit(leds, i)) <=> arg.hour >= 10

\* C3 amended: as claimed, the slot being lit iff hour >= 10 for every colour
\* other than black (0x000000), which lights nothing.
C3_TensSlotLitIffTwoDigitHourAndColour ==
  (pc = "returned" /\ arg.fn = "displayTheTime")
  => /\ arg.hour < 10 => \A i \in HoursTensSlot : ~Lit(leds, i)
     /\ (\E i \in HoursTensSlot : Lit(leds, i))
          <=> (arg.hour >= 10 /\ PixelOf(arg.color) # Off)

C3_Witness ==
  /\ pc = "returned" /\ arg.fn = "displayTheTime"
  /\ arg.hour = 0 /\ arg.minute = 0 /\ arg.color = ToU32(clockColour)
  /\ \E i \in HoursTensSlot : Lit(before.leds, i)
  /\ \A i \in HoursTensSlot : ~Lit(leds, i)
  /\ leds[44] = clockColour


-----------------------------------------------------------------------------
(* The control messages as the specification describes them (section 4.4)  *)

IsHexChar(c) == DigitValue(c) >= 0 /\ DigitValue(c) < 16

RECURSIVE HexValue(_)
HexValue(s) ==
  IF Len(s) = 0 THEN 0
  ELSE 16 * HexValue(SubSeq(s, 1, Len(s) - 1)) + DigitValue(s[Len(s)])

\* The hex digits of a payload: the payload without its optional leading '#'
HexPart(p) == IF Len(p) > 0 /\ p[1] = "#" THEN Tail(p) ELSE p

\* An optional leading '#' followed by exactly 6 hexadecimal characters
IsValidColorText(p) ==
  /\ Len(HexPart(p)) = 6
  /\ \A i \in 1 .. 6 : IsHexChar(HexPart(p)[i])

OnColorTopic == pc = "handled" /\ msg.topic = stored.mqtt_color_topic
OnBrightnessTopic == pc = "handled" /\ msg.topic = stored.mqtt_brightness_topic

\* C4: a colour payload that is an optional '#' and exactly 6 hex characters,
\* upper or lower case, leaves the override active with the 24-bit value of
\* those digits, whatever the override was before.
C4_ValidColorActivates ==
  (OnColorTopic /\ IsValidColorText(msg.payload))
  => /\ mqttColorActive
     /\ mqttColor = ToU32(HexValue(HexPart(msg.payload)))

C4_Witness ==
  /\ OnColorTopic
  /\ msg.payload = <<"#", "a", "F", "0", "0", "F", "a">>
  /\ ~before.active
  /\ mqttColorActive /\ mqttColor = ToU32(\hAF00FA)

\* C5: every non-empty colour payload that is not an optional '#' followed by
\* exactly 6 hex characters is rejected: the override is inactive after it,
\* never active with a value parsed from part of the payload.
C5_MalformedColorRejected ==
  (OnColorTopic /\ Len(msg.payload) > 0 /\ ~IsValidColorText(msg.payload))
  => ~mqttColorActive

\* A decimal integer: an optional sign and one or more decimal digits
IsDecimalText(p) ==
  LET d == IF Len(p) > 0 /\ p[1] \in {"-", "+"} THEN Tail(p) ELSE p
  IN  /\ Len(d) > 0
      /\ \A i \in 1 .. Len(d) : PosIn(DecDigits, d[i]) > 0

RECURSIVE DecValueOfDigits(_)
DecValueOfDigits(d) ==
  IF Len(d) = 0 THEN 0
  ELSE 10 * DecValueOfDigits(SubSeq(d, 1, Len(d) - 1))
         + (PosIn(DecDigits, d[Len(d)]) - 1)

DecValue(p) ==
  IF p[1] = "-" THEN 0 - DecValueOfDigits(Tail(p))
  ELSE IF p[1] = "+" THEN DecValueOfDigits(Tail(p))
  ELSE DecValueOfDigits(p)

\* C6: a brightness payload that is non-numeric, or an integer outside
\* [0,255], leaves the brightness as it was.
C6_BadBrightnessIgnored ==
  (OnBrightnessTopic
     /\ (~IsDecimalText(msg.payload)
           \/ DecValue(msg.payload) < 0 \/ DecValue(msg.payload) > 255))
  => brightness = before.brightness

\* C7: a brightness payload that is the decimal text of an integer v in
\* [0,255] sets the brightness to exactly v.
C7_ValidBrightnessSet ==
  (OnBrightnessTopic /\ \E v \in 0 .. 255 : msg.payload = DecText(v))
  => \E v \in 0 .. 255 : msg.payload = DecText(v) /\ brightness = v

C7_Witness ==
  /\ OnBrightnessTopic
  /\ msg.payload = <<"2", "5", "5">>
  /\ before.brightness = 25
  /\ brightness = 255

-----------------------------------------------------------------------------
(* The main loop *)

\* The colour of the frame in the buffer: the two dots between hours and
\* minutes are lit in every frame displayTheTime composes.
FrameColor == leds[42]

\* C8: a cycle that finds the bus session not connected at its bus check, and
\* handles no colour message afterwards, composes its frame in the default
\* colour 0xD0D37D, whatever override was active before.
C8_LostSessionRendersDefault ==
  (pc = "sleep" /\ cyc.lost /\ ~cyc.colorMsg) => FrameColor = clockColour

\* C9: every iteration of the main loop, once started, reaches the end of
\* its rendering: no step of the cycle keeps the loop for ever.
C9_EveryCycleRenders == (pc = "loopTop") ~> (pc = "sleep")

\* The longest a cycle lasts when no bus connection attempt fails: the link
\* polls, 15 at most of one second each, and the delay that ends the cycle.
LongestQuietCycle == 15 * 1000 + 500

\* C10: while the loop runs, never more than the sync interval and one cycle
\* have gone by since the last resync (the check for it is made once in every
\* cycle).
C10_ResyncWithinInterval ==
  ~GtU32(SubU32(now, lastTimeSync), ToU32(syncInterval + LongestQuietCycle))

-----------------------------------------------------------------------------
(* Startup and the steps of a cycle *)

\* The positions of loop()
LoopPcs ==
  {"loopTop", "loopWifi", "loopWifiDone", "resync", "timeRead", "busCheck",
   "mqttEnter", "mqttConnect", "mqttRetry", "mqttLoop", "render", "sleep"}

\* C11: normal operation (the rest of setup() after the link wait, and the
\* main loop) runs only after the link has been established at startup;
\* until then the sketch is at boot, in the link wait or in the portal.
C11_LoopOnlyAfterLinkUp ==
  (pc \in LoopPcs \cup {"setupRest"}) => wifiConnected

\* C12: a cycle that starts with the link down enters the reconnect wait with
\* a fixed number of polls (15 at most); every poll uses one of them up and
\* waits one second; the wait ends when the link is up or no poll is left,
\* and the cycle then goes on with the resync check either way.  A cycle that
\* starts with the link still down waits again.
C12_ReconnectBounded ==
  [][ /\ (pc = "loopTop" /\ pc' # pc)
         => IF wifiUp THEN pc' = "resync"
            ELSE pc' = "loopWifi" /\ timeout' \in 1 .. 15
      /\ (pc = "loopWifi" /\ pc' = pc /\ <<timeout', now'>> # <<timeout, now>>)
         => /\ timeout > 0
            /\ timeout' = timeout - 1
            /\ clockLeft >= 1000 => now' = AddU32(now, 1000)
      /\ (pc = "loopWifi" /\ pc' # pc)
         => pc' = "loopWifiDone" /\ (wifiUp \/ timeout = 0)
      /\ (pc = "loopWifiDone" /\ pc' # pc) => pc' = "resync"
    ]_vars

\* The wait has used up its polls with the link still down, and falls through
C12_Witness ==
  /\ pc = "loopWifiDone" /\ ~wifiUp /\ timeout = -1
  /\ now = AddU32(ToU32(899500), 15 * 1000)

\* C13: the frame a cycle has composed shows the current hour and minute in
\* the override colour if the override is active, in the default colour
\* 0xD0D37D otherwise, and the strip's brightness is the current brightness
\* value in either case.
C13_FrameColorAndBrightness ==
  pc = "sleep"
  => /\ ShowsExactly(leds, ExpectedFrameLeds(currentHour, currentMinute),
                     IF mqttColorActive THEN PixelOf(mqttColor)
                     ELSE clockColour)
     /\ stripBrightness = brightness

\* A frame in the override colour at a brightness set over the bus
C13_Witness ==
  /\ pc = "sleep" /\ mqttColorActive /\ mqttColor = ToU32(\hFF0000)
  /\ FrameColor = \hFF0000
  /\ brightness = 50 /\ stripBrightness = 50

\* C16: a failed time read leaves hour and minute as they were (0:00 from
\* power-up until a read succeeds) and the cycle goes on to the bus check;
\* the frame of a cycle whose read failed shows those kept values.
C16_FailedReadKeepsTime ==
  [][ /\ (pc = "timeRead" /\ cyc'.timeFailed)
         => /\ currentHour' = currentHour
            /\ currentMinute' = currentMinute
            /\ pc' = "busCheck"
      /\ (pc = "render" /\ pc' = "sleep" /\ cyc.timeFailed)
         => /\ currentHour' = currentHour
            /\ currentMinute' = currentMinute
            /\ ShowsExactly(leds', ExpectedFrameLeds(currentHour, currentMinute),
                            PixelOf(displayColor))
    ]_vars

\* No read has succeeded since power-up: the frame shows 0:00
C16_FrameAtPowerUpTime ==
  /\ pc = "sleep" /\ cyc.timeFailed
  /\ currentHour = 0 /\ currentMinute = 0
  /\ ShowsExactly(leds, ExpectedFrameLeds(0, 0), clockColour)

\* C19: the active flag and the override colour change only where the colour
\* handler handles a message and where the loop resets the override after
\* finding the bus session lost; the handler leaves the override active iff
\* the message is a valid colour (an optional '#' and 6 hex digits), and the
\* reset leaves it inactive.  So the override is active at render time only
\* if the last colour message handled was valid and no loss was detected
\* since.
C19_ActiveOnlyAfterValidColor ==
  [][ /\ (mqttColorActive' # mqttColorActive \/ mqttColor' # mqttColor)
         => \/ /\ pc = "mqttLoop" /\ cyc'.colorMsg
               /\ msg'.topic = stored.mqtt_color_topic
            \/ /\ pc \in {"mqttConnect", "mqttEnter"} /\ pc' = "mqttLoop"
               /\ ~mqttColorActive' /\ mqttColor' = mqttColor
      /\ (pc = "mqttLoop" /\ cyc'.colorMsg)
         => (mqttColorActive' <=> IsValidColorText(msg'.payload))
      /\ (pc \in {"mqttConnect", "mqttEnter"} /\ pc' = "mqttLoop")
         => ~mqttColorActive'
    ]_vars

-----------------------------------------------------------------------------
(* Clearing the override, and the dispatch by topic *)

\* C14: after a colour-topic message with an empty payload the override is
\* inactive, whatever it was before, so the display colour is the default
\* 0xD0D37D; the brightness and the stored override colour are as before.
C14_EmptyColorClears ==
  (OnColorTopic /\ Len(msg.payload) = 0)
  => /\ ~mqttColorActive
     /\ displayColor = ToU32(clockColour)
     /\ brightness = before.brightness
     /\ mqttColor = before.color

C14_Witness ==
  /\ OnColorTopic /\ msg.payload = <<>>
  /\ before.active /\ before.color = ToU32(\hFF0000)
  /\ ~mqttColorActive /\ brightness = 200

\* The override before the message, as a record
OverrideBefore == [active |-> before.active, color |-> before.color,
                   brightness |-> before.brightness]

\* C15: a message is handled by the colour handler iff its topic equals the
\* configured colour topic, by the brightness handler iff it equals the
\* configured brightness topic: a colour message never changes the
\* brightness, a brightness message never changes the active flag or the
\* colour, and a message on any other topic changes none of the three.
C15_RoutedByTopic ==
  pc = "handled"
  => /\ Override =
          IF msg.topic = stored.mqtt_color_topic
          THEN colorBranch(msg.payload, OverrideBefore).st
          ELSE IF msg.topic = stored.mqtt_brightness_topic
          THEN brightnessBranch(msg.payload, OverrideBefore)
          ELSE OverrideBefore
     /\ msg.topic # stored.mqtt_brightness_topic
          => brightness = before.brightness
     /\ msg.topic # stored.mqtt_color_topic
          => mqttColorActive = before.active /\ mqttColor = before.color

\* A valid colour text and a valid brightness text on a foreign topic
C15_Witness ==
  /\ pc = "handled" /\ msg.topic = "some/other/topic"
  /\ msg.payload \in {<<"F", "F", "0", "0", "0", "0">>, <<"2", "5", "5">>}
  /\ ~before.active /\ before.brightness = 25
  /\ ~mqttColorActive /\ brightness = 25

\* C20: whenever the override is active, its colour is a 24-bit value,
\* 0..0xFFFFFF: the upper 8 of its 32 bits are 0.
C20_ActiveColorIs24Bit ==
  mqttColorActive => mqttColor.hi < 256

-----------------------------------------------------------------------------
(* Frames as functions of their inputs, and the bounds of the strip *)

\* An LED lit in old is lit in new only if it belongs to S
StaysLitOnlyIn(old, new, S) ==
  \A i \in LedIndex : (Lit(old, i) /\ Lit(new, i)) => i \in S

\* C17: the frame displayTheTime composes is the same whatever the buffer
\* held before (blank, the same frame, another frame): it is the frame
\* composed from a blank buffer, and an LED lit before stays lit only if the
\* new frame lights it.
C17_FrameDependsOnInputsOnly ==
  (pc = "returned" /\ arg.fn = "displayTheTime")
  => /\ leds = displayTheTime(Blank, arg.hour, arg.minute, arg.color)
     /\ StaysLitOnlyIn(before.leds, leds,
                       ExpectedFrameLeds(arg.hour, arg.minute))

\* 1:11 composed over the frame of 18:08 in another colour
C17_Witness ==
  /\ pc = "returned" /\ arg.fn = "displayTheTime"
  /\ arg.color = ToU32(clockColour)
  /\ arg.hour = 1 /\ arg.minute = 11
  /\ before.leds = displayTheTime(Blank, 18, 8, ToU32(\h0000FF))
  /\ \A i \in LedIndex : Lit(leds, i) => leds[i] = clockColour
  /\ \E i \in LedIndex : Lit(before.leds, i) /\ ~Lit(leds, i)

\* The four digit slots and the separator of the layout
Slots == <<0 .. 20, 21 .. 41, {42, 43}, 44 .. 64, 65 .. 85>>

SlotsPartitionStrip ==
  /\ UNION {Slots[k] : k \in 1 .. Len(Slots)} = LedIndex
  /\ \A j, k \in 1 .. Len(Slots) : j # k => Slots[j] \cap Slots[k] = {}

\* The LED indices digit d's segments call for at base, not cut at the end
\* of the strip
GlyphIndices(d, base) ==
  UNION { (base + SegRel[s]) .. (base + SegRel[s] + 2) : s \in SegTable[d] }

\* The LED indices a frame for (h, m) calls for
FrameIndices(h, m) ==
  GlyphIndices(m % 10, 0) \cup GlyphIndices(m \div 10, 21) \cup {42, 43}
    \cup GlyphIndices(h % 10, 44)
    \cup (IF h > 9 THEN GlyphIndices(h \div 10, 65) ELSE {})

LitLeds(buf) == {i \in LedIndex : Lit(buf, i)}

\* C18: displayNumber with a digit outside 0..9 changes no LED; composing a
\* frame writes only LEDs 0..85: each digit is written inside its slot and
\* every LED the frame calls for is there in the buffer (none fell off the
\* strip); the four slots and the separator split the 86 LEDs between them.
C18_WritesStayOnStrip ==
  /\ (pc = "returned" /\ arg.fn = "displayNumber" /\ arg.digit \notin Digits)
     => leds = before.leds
  /\ (pc = "returned" /\ arg.fn = "displayTheTime")
     => /\ FrameIndices(arg.hour, arg.minute) \subseteq LedIndex
        /\ GlyphIndices(arg.minute % 10, 0) \subseteq Slots[1]
        /\ GlyphIndices(arg.minute \div 10, 21) \subseteq Slots[2]
        /\ GlyphIndices(arg.hour % 10, 44) \subseteq Slots[4]
        /\ GlyphIndices(arg.hour \div 10, 65) \subseteq Slots[5]
        /\ PixelOf(arg.color) # Off
           => LitLeds(leds) = FrameIndices(arg.hour, arg.minute)
  /\ SlotsPartitionStrip

\* The frame of 23:48 has LED 85, the last of the strip, and LED 0 lit
C18_Witness ==
  /\ pc = "returned"
  /\ arg.fn = "displayTheTime" /\ arg.hour = 23 /\ arg.minute = 48
  /\ Lit(leds, 85) /\ Lit(leds, 0)
  /\ LitLeds(leds) = FrameIndices(23, 48)
-----------------------------------------------------------------------------
(* The order of the steps of one pass of loop().                            *)

\* The place of a position of loop() in the order of the source text:
\* 1 link check and repair, 2 resync check, 3 time read, 4 bus check and
\* repair, 5 bus poll, 6 colour choice and frame, 7 sleep; 0 outside loop()
StageInLoop(p) ==
  IF p \in {"loopTop", "loopWifi", "loopWifiDone"} THEN 1
  ELSE IF p = "resync" THEN 2
  ELSE IF p = "timeRead" THEN 3
  ELSE IF p \in {"busCheck", "mqttEnter", "mqttConnect", "mqttRetry"} THEN 4
  ELSE IF p = "mqttLoop" THEN 5
  ELSE IF p = "render" THEN 6
  ELSE IF p = "sleep" THEN 7
  ELSE 0

\* The place of a position in the order the specification gives: 1 bus
\* poll, 2 link and bus check and repair, 3 time read (with the resync
\* check), 4 and 5 colour choice and frame, 6 sleep
StageAsSpecified(p) ==
  IF p = "mqttLoop" THEN 1
  ELSE IF p \in {"loopTop", "loopWifi", "loopWifiDone", "busCheck",
                 "mqttEnter", "mqttConnect", "mqttRetry"} THEN 2
  ELSE IF p \in {"resync", "timeRead"} THEN 3
  ELSE IF p = "render" THEN 5
  ELSE IF p = "sleep" THEN 6
  ELSE 0

\* C21 as stated: within one pass (from the link check to the sleep) the
\* steps come in the order bus poll, link and bus check and repair, time
\* read, colour and brightness, frame, sleep; no step takes the pass back to
\* an earlier place of that order.
C21_OrderAsSpecified ==
  [][(StageInLoop(pc) > 0 /\ StageInLoop(pc') > 0 /\ pc # "sleep")
       => StageAsSpecified(pc') >= StageAsSpecified(pc)]_vars

\* C21 amended: in each pass of loop() the steps come in the order link check
\* and repair, resync check, time read, bus check and repair, bus poll,
\* colour choice and one frame, sleep.  No step goes back to an earlier
\* place, the pass after the sleep begins at the link check, the time read
\* and the frame are never left out, and each effect happens at its place:
\* the time shown changes only at the time read, a message is handled only
\* at the bus poll, the strip changes only at the frame (once per pass), and
\* the sleep is the last step of the pass.
C21_OrderOfLoopSteps ==
  [][StageInLoop(pc) > 0 =>
       /\ StageInLoop(pc') > 0
       /\ pc # "sleep" => StageInLoop(pc') >= StageInLoop(pc)
       /\ (pc = "sleep" /\ pc' # pc) => pc' = "loopTop"
       /\ (StageInLoop(pc) < 3 /\ pc' # pc) => StageInLoop(pc') <= 3
       /\ (StageInLoop(pc) < 6 /\ pc' # pc) => StageInLoop(pc') <= 6
       /\ <<currentHour, currentMinute>>' # <<currentHour, currentMinute>>
            => (pc = "timeRead" /\ pc' = "busCheck")
       /\ msg' # msg => (pc = "mqttLoop" /\ pc' = "render")
       /\ <<leds, stripBrightness>>' # <<leds, stripBrightness>>
            => (pc = "render" /\ pc' = "sleep")
       /\ (pc = "render" /\ pc' # pc) =>
            /\ pc' = "sleep"
            /\ stripBrightness' = brightness
            /\ leds' = displayTheTime(leds, currentHour, currentMinute,
                                      displayColor)]_vars

\* A pass that repaired the bus session, handled a colour message in the bus
\* poll after a successful time read, and has made its frame
C21_Witness ==
  /\ pc = "sleep"
  /\ cyc.lost /\ cyc.colorMsg /\ ~cyc.timeFailed
  /\ currentHour = 23
  /\ msg # NoMsg
  /\ ShowsExactly(leds, ExpectedFrameLeds(23, 59), PixelOf(displayColor))

-----------------------------------------------------------------------------
(* What a message and the reset leave alone.                                *)

\* The reset of the override after connectToMQTT() (in fixed also when
\* connectToMQTT() returned at once for want of Wi-Fi)
IsOverrideReset ==
  /\ pc \in {"mqttConnect", "mqttEnter"}
  /\ pc' = "mqttLoop"
  /\ ~mqttColorActive'
  /\ mqttColor' = mqttColor

\* C22: while the sketch runs (the two topics being distinct), the brightness
\* changes only by the handling of a brightness-topic message, and that step
\* leaves the override flag and colour as they were; the override flag and
\* colour change only by the handling of a colour-topic message or by the
\* reset after a lost bus session, and those steps leave the brightness as it
\* was; and whatever messages and resets came before, a frame made while the
\* override is inactive is in the default colour 0xD0D37D.
C22_OverrideAndBrightnessApart ==
  [][pc' # "boot" =>
       /\ stored.mqtt_color_topic # stored.mqtt_brightness_topic
       /\ brightness' # brightness
            => /\ pc = "mqttLoop"
               /\ msg'.topic = stored.mqtt_brightness_topic
               /\ UNCHANGED <<mqttColorActive, mqttColor>>
       /\ <<mqttColorActive, mqttColor>>' # <<mqttColorActive, mqttColor>>
            => /\ brightness' = brightness
               /\ \/ pc = "mqttLoop" /\ msg'.topic = stored.mqtt_color_topic
                  \/ IsOverrideReset
       /\ (pc = "mqttLoop" /\ cyc'.colorMsg) => brightness' = brightness
       /\ (pc = "render" /\ pc' = "sleep" /\ ~mqttColorActive)
            => FrameColor' = 13685629]_vars

\* Just after a reset: the override set by a colour message is inactive
\* again, its colour is still there, and the brightness set by a brightness
\* message is still 50
C22_Witness ==
  /\ pc = "mqttLoop" /\ cyc.lost
  /\ ~mqttColorActive /\ mqttColor = ToU32(16711680)
  /\ brightness = 50

-----------------------------------------------------------------------------
(* The bus session and its subscriptions.                                   *)

\* The positions inside the while loop of connectToMQTT()
InConnectLoop(p) == p \in {"mqttConnect", "mqttRetry"}

\* The session's subscriptions are the two stored topics
SubscribedToBoth ==
  subs = {stored.mqtt_color_topic, stored.mqtt_brightness_topic}

\* C23: once connectToMQTT() is in its loop it is left only with the session
\* connected; the step in which a connect succeeds subscribes to both topics
\* and dispatches nothing; so whenever the bus is polled on a connected
\* session the session is subscribed to both topics, and a message is
\* dispatched only on such a session.
C23_SubscribedBeforeDispatch ==
  [][/\ (InConnectLoop(pc) /\ ~InConnectLoop(pc'))
          => (pc' = "mqttLoop" /\ mqttUp /\ mqttUp' /\ SubscribedToBoth')
     /\ (~mqttUp /\ mqttUp')
          => (InConnectLoop(pc) /\ SubscribedToBoth' /\ msg' = msg
              /\ UNCHANGED overrideVars)
     /\ (pc = "mqttLoop" /\ mqttUp) => SubscribedToBoth
     /\ (pc = "mqttLoop" /\ (msg' # msg \/ cyc'.colorMsg
                              \/ overrideVars' # overrideVars))
          => (mqttUp /\ SubscribedToBoth /\ msg'.topic \in subs)]_vars

\* The bus is about to be polled on a session that was down at this pass's
\* bus check and has been connected again since
C23_Witness ==
  /\ pc = "mqttLoop" /\ cyc.lost /\ mqttUp
  /\ SubscribedToBoth
  /\ msg # NoMsg

-----------------------------------------------------------------------------
(* The resync check across the wrap of millis().                            *)

\* A counter value as the number of milliseconds since the counter's wrap
\* (negative before it): the real time, for values within 2^31 of the wrap
SinceWrap(x) ==
  IF x.hi >= 32768 THEN (x.hi - 65536) * 65536 + x.lo
  ELSE x.hi * 65536 + x.lo

\* The milliseconds that have really gone by since the last resync
ElapsedSinceSync == SinceWrap(now) - SinceWrap(lastTimeSync)

\* C24: at every resync check the outcome follows the real elapsed time,
\* also when the counter has wrapped since the last resync: with 900000 ms
\* or less gone by lastTimeSync stays, with more it becomes the current
\* counter value; lastTimeSync changes at no other step; and until the first
\* resync the elapsed time is the 899500 ms of the start and what the clock
\* has run since.
C24_ResyncCheckWrapSafe ==
  [][/\ (pc = "resync" /\ pc' # pc)
          => IF ElapsedSinceSync > 900000
             THEN lastTimeSync' = now /\ ElapsedSinceSync' = 0
             ELSE lastTimeSync' = lastTimeSync
     /\ lastTimeSync' # lastTimeSync => (pc = "resync" /\ pc' = "timeRead")
     /\ (clockLeft > 0 /\ lastTimeSync \in {s.last : s \in SyncStarts})
          => ElapsedSinceSync = 899500 + (Horizon - clockLeft)]_vars

\* A resync made 800 ms after the wrap, 900500 ms after the one before it
\* (which was 899700 ms before the wrap)
C24_Witness ==
  /\ pc = "timeRead"
  /\ lastTimeSync = ToU32(800)
  /\ now = ToU32(800)

-----------------------------------------------------------------------------
(* The flag wifiConnected and the delay that ends a pass.                   *)

====
